---- MODULE Spec2Model ----
(***************************************************************************)
(* A model of luster's channel entities (luster/channels.py), the Cache    *)
(* Store and Event Router that drive them, Category.channels() and the     *)
(* edit() request of _EditChannelMixin.                                    *)
(*                                                                         *)
(* Python values: strings are strings, bools are BOOLEAN, lists are        *)
(* sequences, dicts (payloads) are functions whose DOMAIN is the set of    *)
(* keys present.  An object is a function from "cls" and its assigned      *)
(* attribute names to values.  None is the string "None", which no payload *)
(* uses as an ordinary string.  A File object is represented by its id.    *)
(***************************************************************************)
EXTENDS Naturals, Sequences, FiniteSets, TLC

VARIABLES
    cache,      \* Cache Store: channel id -> channel object
    inbox,      \* decoded events that arrived and are not yet routed (FIFO)
    outcome,    \* what routing the last event did
    category,   \* a Category object
    result,     \* the list the last Category.channels() call returned
    payload,    \* entity lifecycle: the payload an object is constructed from
    delta,      \* entity lifecycle: the delta payload applied to it
    obj,        \* entity lifecycle: the object
    once,       \* entity lifecycle: the object as it was after the first update
    phase,      \* entity lifecycle: "new", "failed", "built", "once", "twice"
    raised,     \* entity lifecycle: whether the last call raised KeyError
    edit,       \* the edit() call in flight: its position and locals
    initialized,   \* Client.__initialized
    clientPc,      \* per task: where its Client call stands
    handlerCalls   \* the calls made on the HTTP handler, in order

vars == <<cache, inbox, outcome, category, result,
          payload, delta, obj, once, phase, raised, edit,
          initialized, clientPc, handlerCalls>>

routerVars == <<cache, inbox, outcome>>
categoryVars == <<category, result>>
entityVars == <<payload, delta, obj, once, phase, raised>>
clientVars == <<initialized, clientPc, handlerCalls>>

-----------------------------------------------------------------------------
(* Python values *)

None == "None"

\* None where an object is expected (a failed lookup, a constructor that raised).
NoObject == [a \in {"cls"} |-> None]

\* The empty dict.
EmptyDict == [k \in {} |-> None]

\* dict.get(key, default)
DictGet(data, key, default) == IF key \in DOMAIN data THEN data[key] ELSE default

\* setattr(o, attr, v)
SetAttr(o, attr, v) ==
    [x \in DOMAIN o \cup {attr} |-> IF x = attr THEN v ELSE o[x]]

\* The dict `data` restricted to the keys in K.
Restrict(data, K) == [k \in DOMAIN data \cap K |-> data[k]]

\* The dict `data` with data[key] = v.
DictSet(data, key, v) ==
    [k \in DOMAIN data \cup {key} |-> IF k = key THEN v ELSE data[k]]

-----------------------------------------------------------------------------
(* _update_from_data, statement by statement.  A run is a record           *)
(* [obj, data, raised]: once a statement raises KeyError the statements    *)
(* after it do not run, and the attributes assigned before it stay.        *)

\* self.<attr> = data[<key>]
Required(s, attr, key) ==
    IF s.raised THEN s
    ELSE IF key \in DOMAIN s.data
         THEN [s EXCEPT !.obj = SetAttr(s.obj, attr, s.data[key])]
         ELSE [s EXCEPT !.raised = TRUE]

\* self.<attr> = data.get(<key>, <default>)
Optional(s, attr, key, default) ==
    IF s.raised THEN s
    ELSE [s EXCEPT !.obj = SetAttr(s.obj, attr, DictGet(s.data, key, default))]

\* File(icon, state): the File object, represented by its id (data["_id"]).
File(icon) == icon["_id"]

\* icon = data.get("icon"); File(icon, self._state) if icon else None
\* (an icon payload is a dict: it is falsy when it is empty)
IconOf(data) ==
    IF "icon" \in DOMAIN data /\ DOMAIN data["icon"] # {}
    THEN File(data["icon"]) ELSE None

PrivateChannel_update_from_data(s) ==
    Required(Required(s, "id", "_id"), "type", "channel_type")

ServerChannel_update_from_data(s) ==
    LET s1 == Required(s, "id", "_id")
        s2 == Required(s1, "type", "channel_type")
        s3 == Required(s2, "server_id", "server")
        s4 == Required(s3, "name", "name")
        s5 == Optional(s4, "description", "description", None)
    IN  Optional(s5, "nsfw", "nsfw", FALSE)

TextChannel_update_from_data(s) ==
    Optional(ServerChannel_update_from_data(s),
             "last_message_id", "last_message_id", None)

SavedMessages_update_from_data(s) ==
    Required(PrivateChannel_update_from_data(s), "user_id", "user")

DirectMessage_update_from_data(s) ==
    LET s1 == PrivateChannel_update_from_data(s)
        s2 == Optional(s1, "recipient_ids", "recipients", <<>>)
        s3 == Optional(s2, "active", "active", FALSE)
    IN  Optional(s3, "last_message_id", "last_message_id", None)

\* A plausible slip: the recipients of the payload are added to the list
\* instead of replacing it.
Group_update_extends_recipients(s) ==
    LET s1 == PrivateChannel_update_from_data(s)
        s2 == Required(s1, "name", "name")
        s3 == Required(s2, "owner_id", "owner")
        old == IF "recipient_ids" \in DOMAIN s.obj THEN s.obj["recipient_ids"] ELSE <<>>
        s4 == IF s3.raised THEN s3
              ELSE [s3 EXCEPT !.obj = SetAttr(s3.obj, "recipient_ids",
                                       old \o DictGet(s3.data, "recipients", <<>>))]
        s5 == Optional(s4, "description", "description", None)
        s6 == Optional(s5, "nsfw", "nsfw", FALSE)
        s7 == Optional(s6, "last_message_id", "last_message_id", None)
    IN  IF s7.raised THEN s7
        ELSE [s7 EXCEPT !.obj = SetAttr(s7.obj, "icon", IconOf(s7.data))]

Group_update_from_data(s) ==
    LET s1 == PrivateChannel_update_from_data(s)
        s2 == Required(s1, "name", "name")
        s3 == Required(s2, "owner_id", "owner")
        s4 == Optional(s3, "recipient_ids", "recipients", <<>>)
        s5 == Optional(s4, "description", "description", None)
        s6 == Optional(s5, "nsfw", "nsfw", FALSE)
        s7 == Optional(s6, "last_message_id", "last_message_id", None)
    IN  IF s7.raised THEN s7
        ELSE [s7 EXCEPT !.obj = SetAttr(s7.obj, "icon", IconOf(s7.data))]

Category_update_from_data(s) ==
    LET s1 == Required(s, "id", "id")
        s2 == Required(s1, "title", "title")
    IN  Optional(s2, "channel_ids", "channels", <<>>)

\* o._update_from_data(data), dispatched on the class of o.
update_from_data(o, data) ==
    LET s == [obj |-> o, data |-> data, raised |-> FALSE]
    IN  CASE o["cls"] = "TextChannel"    -> TextChannel_update_from_data(s)
          [] o["cls"] = "VoiceChannel"   -> ServerChannel_update_from_data(s)
          [] o["cls"] = "SavedMessages"  -> SavedMessages_update_from_data(s)
          [] o["cls"] = "DirectMessage"  -> DirectMessage_update_from_data(s)
          [] o["cls"] = "Group"          -> Group_update_from_data(s)
          [] o["cls"] = "Category"       -> Category_update_from_data(s)
          [] OTHER                       -> PrivateChannel_update_from_data(s)

\* cls(data, state): __init__ runs _update_from_data on a new object.
New(cls, data) == update_from_data([a \in {"cls"} |-> cls], data)

-----------------------------------------------------------------------------
(* The Entity Factory *)

\* A plausible slip: the branch for groups is missing.
channel_factory_without_group(tp) ==
    CASE tp = "TextChannel"    -> "TextChannel"
      [] tp = "VoiceChannel"   -> "VoiceChannel"
      [] tp = "SavedMessages"  -> "SavedMessages"
      [] tp = "DirectMessage"  -> "DirectMessage"
      [] OTHER                 -> "PrivateChannel"

channel_factory(tp) ==
    CASE tp = "TextChannel"    -> "TextChannel"
      [] tp = "VoiceChannel"   -> "VoiceChannel"
      [] tp = "SavedMessages"  -> "SavedMessages"
      [] tp = "DirectMessage"  -> "DirectMessage"
      [] tp = "Group"          -> "Group"
      [] OTHER                 -> "PrivateChannel"

-----------------------------------------------------------------------------
(* Payloads.  Two assignments of values to the payload keys; a payload is  *)
(* one of them restricted to a set of keys.                                *)

ValuesA ==
    [_id |-> "g1", channel_type |-> "Group", name |-> "Team", owner |-> "u1",
     recipients |-> <<"u1", "u2">>, description |-> "hello", nsfw |-> TRUE,
     last_message_id |-> "m1", icon |-> [_id |-> "f1"], server |-> "s1",
     user |-> "u1", active |-> TRUE, remove |-> <<"Description">>]

ValuesB ==
    [_id |-> "c1", channel_type |-> "TextChannel", name |-> "Team2", owner |-> "u2",
     recipients |-> <<"u3">>, description |-> None, nsfw |-> FALSE,
     last_message_id |-> None, icon |-> [_id |-> "f2"], server |-> "s2",
     user |-> "u2", active |-> FALSE, remove |-> <<"Description", "Icon">>]

\* The values of luster.enums.ChannelType, and tags it does not know.
KnownTags == {"TextChannel", "VoiceChannel", "SavedMessages", "DirectMessage", "Group"}
UnknownTags == {"Thread", "PrivateChannel"}
Tags == KnownTags \cup UnknownTags

\* The keys each class reads.
PrivateKeys == {"_id", "channel_type"}
ServerKeys == PrivateKeys \cup {"server", "name", "description", "nsfw"}
TextKeys == ServerKeys \cup {"last_message_id"}
SavedKeys == PrivateKeys \cup {"user"}
DirectKeys == PrivateKeys \cup {"recipients", "active", "last_message_id"}
GroupKeys == PrivateKeys \cup {"name", "owner", "recipients", "description",
                               "nsfw", "last_message_id", "icon"}

KeysOf(tag) ==
    CASE tag = "TextChannel"    -> TextKeys
      [] tag = "VoiceChannel"   -> ServerKeys
      [] tag = "SavedMessages"  -> SavedKeys
      [] tag = "DirectMessage"  -> DirectKeys
      [] tag = "Group"          -> GroupKeys
      [] OTHER                  -> PrivateKeys

\* The full payload of a channel with this id and type tag.
FullPayload(id, tag) ==
    DictSet(DictSet(Restrict(ValuesA, KeysOf(tag)), "_id", id), "channel_type", tag)

-----------------------------------------------------------------------------
(* The life of one entity: constructed from a payload as a Create event    *)
(* does (channel_factory(data["channel_type"])(data, state)), then updated *)
(* with the same delta twice.                                              *)

CreatePayloads ==
    {FullPayload("g1", tag) : tag \in Tags}
    \cup {Restrict(FullPayload("g1", tag), PrivateKeys) : tag \in Tags}
    \cup {Restrict(FullPayload("g1", "Group"), GroupKeys \ {k}) : k \in GroupKeys}

DeltaKeySets ==
    SUBSET (GroupKeys \cup {"remove"}) \cup SUBSET (TextKeys \cup {"remove"})
    \cup SUBSET DirectKeys \cup SUBSET SavedKeys

Deltas == {Restrict(v, K) : v \in {ValuesA, ValuesB}, K \in DeltaKeySets}

InitEntity ==
    /\ payload \in CreatePayloads
    /\ delta \in Deltas
    /\ obj = NoObject
    /\ once = NoObject
    /\ phase = "new"
    /\ raised = FALSE

Construct ==
    /\ phase = "new"
    /\ IF "channel_type" \in DOMAIN payload
       THEN LET r == New(channel_factory(payload["channel_type"]), payload)
            IN  /\ raised' = r.raised
                /\ obj' = IF r.raised THEN NoObject ELSE r.obj
                /\ phase' = IF r.raised THEN "failed" ELSE "built"
       ELSE raised' = TRUE /\ obj' = NoObject /\ phase' = "failed"
    /\ UNCHANGED <<payload, delta, once, routerVars, categoryVars, edit, clientVars>>

Apply ==
    /\ phase = "built"
    /\ LET r == update_from_data(obj, delta)
       IN  obj' = r.obj /\ once' = r.obj /\ raised' = r.raised
    /\ phase' = "once"
    /\ UNCHANGED <<payload, delta, routerVars, categoryVars, edit, clientVars>>

ApplyAgain ==
    /\ phase = "once"
    /\ LET r == update_from_data(obj, delta)
       IN  obj' = r.obj /\ raised' = r.raised
    /\ phase' = "twice"
    /\ UNCHANGED <<payload, delta, once, routerVars, categoryVars, edit, clientVars>>

-----------------------------------------------------------------------------
(* The Cache Store: channel id -> channel object *)

get_channel(c, id) == IF id \in DOMAIN c THEN c[id] ELSE NoObject

upsert_channel(c, o) == [k \in DOMAIN c \cup {o["id"]} |-> IF k = o["id"] THEN o ELSE c[k]]

remove_channel(c, id) == [k \in DOMAIN c \ {id} |-> c[k]]

-----------------------------------------------------------------------------
(* The Event Router.  An event is [type, id, data]: a ChannelCreate        *)
(* carries the channel payload, a ChannelUpdate the target id and the      *)
(* delta payload, a ChannelDelete the target id.                           *)

EventTypes == {"ChannelCreate", "ChannelUpdate", "ChannelDelete", "Pong"}

ChannelCreate(data) == [type |-> "ChannelCreate", id |-> None, data |-> data]
ChannelUpdate(id, data) == [type |-> "ChannelUpdate", id |-> id, data |-> data]
ChannelDelete(id) == [type |-> "ChannelDelete", id |-> id, data |-> EmptyDict]
Pong == [type |-> "Pong", id |-> None, data |-> EmptyDict]

\* *Create: the Entity Factory builds a new instance, which is upserted.
\* A payload that misses a required field fails that event only.
OnCreate(c, data) ==
    IF "channel_type" \notin DOMAIN data
    THEN [cache |-> c, outcome |-> "error"]
    ELSE LET r == New(channel_factory(data["channel_type"]), data)
         IN  IF r.raised
             THEN [cache |-> c, outcome |-> "error"]
             ELSE [cache |-> upsert_channel(c, r.obj), outcome |-> "created"]

\* A slip: an update for an uncached target builds the entity from the delta.
OnUpdate_creates_missing(c, id, data) ==
    IF id \in DOMAIN c
    THEN LET r == update_from_data(c[id], data)
         IN  [cache |-> [c EXCEPT ![id] = r.obj],
              outcome |-> IF r.raised THEN "error" ELSE "updated"]
    ELSE [cache |-> [k \in DOMAIN c \cup {id} |->
                        IF k = id THEN New("PrivateChannel", data).obj ELSE c[k]],
          outcome |-> "updated"]

\* *Update: get by id; if present the entity updates itself in place (what
\* it assigned before a KeyError stays assigned); if absent, a no-op.
OnUpdate(c, id, data) ==
    IF id \in DOMAIN c
    THEN LET r == update_from_data(c[id], data)
         IN  [cache |-> [c EXCEPT ![id] = r.obj],
              outcome |-> IF r.raised THEN "error" ELSE "updated"]
    ELSE [cache |-> c, outcome |-> "dropped"]

\* *Delete: remove by id; a no-op if absent.
OnDelete(c, id) ==
    IF id \in DOMAIN c
    THEN [cache |-> remove_channel(c, id), outcome |-> "removed"]
    ELSE [cache |-> c, outcome |-> "dropped"]

RouteEvent(c, e) ==
    CASE e.type = "ChannelCreate" -> OnCreate(c, e.data)
      [] e.type = "ChannelUpdate" -> OnUpdate(c, e.id, e.data)
      [] e.type = "ChannelDelete" -> OnDelete(c, e.id)
      [] OTHER                    -> [cache |-> c, outcome |-> "ignored"]

MaxInbox == 2

\* A slip: the router takes the newest event, not the oldest.
NextEvent_newest(q) == [event |-> q[Len(q)], rest |-> SubSeq(q, 1, Len(q) - 1)]

\* The event the router takes next, and what stays queued.
NextEvent(q) == [event |-> Head(q), rest |-> Tail(q)]

\* The transport delivers a decoded event.
Arrive(e) ==
    /\ Len(inbox) < MaxInbox
    /\ inbox' = Append(inbox, e)
    /\ UNCHANGED <<cache, outcome, categoryVars, entityVars, edit, clientVars>>

\* The router processes one event, whole, before it takes another.
Process ==
    /\ inbox # <<>>
    /\ LET n == NextEvent(inbox)
           r == RouteEvent(cache, n.event)
       IN  /\ cache' = r.cache
           /\ outcome' = r.outcome
           /\ inbox' = n.rest
    /\ UNCHANGED <<categoryVars, entityVars, edit, clientVars>>

-----------------------------------------------------------------------------
(* Category *)

RECURSIVE channels_loop_keeps_missing(_, _, _)
channels_loop_keeps_missing(ids, c, ret) ==
    IF ids = <<>> THEN ret
    ELSE channels_loop_keeps_missing(Tail(ids), c, Append(ret, get_channel(c, Head(ids))))

\* A slip: the `if channel:` test is missing.
Category_channels_keeps_missing(cat, c) ==
    channels_loop_keeps_missing(cat["channel_ids"], c, <<>>)

\* for channel_id in self.channel_ids: ... if channel: ret.append(channel)
RECURSIVE channels_loop(_, _, _)
channels_loop(ids, c, ret) ==
    IF ids = <<>> THEN ret
    ELSE LET channel == get_channel(c, Head(ids))
         IN  channels_loop(Tail(ids), c,
                           IF channel # NoObject THEN Append(ret, channel) ELSE ret)

Category_channels(cat, c) == channels_loop(cat["channel_ids"], c, <<>>)

MaxChannelIds == 3
CategoryIds == {"a", "b", "c"}

\* The lists of at most n ids of S, each id at most once.
ListsUpTo(S, n) ==
    UNION {{q \in [1..m -> S] : \A i, j \in 1..m : q[i] = q[j] => i = j} : m \in 0..n}

CategoryPayloads ==
    {[id |-> "cat", title |-> "General", channels |-> ids] :
        ids \in ListsUpTo(CategoryIds, MaxChannelIds)}
    \cup {[id |-> "cat", title |-> "General"], [id |-> "cat"]}

InitCategory == New("Category", [id |-> "cat", title |-> "General",
                                 channels |-> <<"a", "b", "c">>]).obj

\* A delta for the category arrives and the category updates itself.
CategoryUpdate(data) ==
    /\ category' = update_from_data(category, data).obj
    /\ UNCHANGED <<routerVars, result, entityVars, edit, clientVars>>

\* A consumer calls category.channels().
CallChannels ==
    /\ result' = Category_channels(category, cache)
    /\ UNCHANGED <<routerVars, category, entityVars, edit, clientVars>>

-----------------------------------------------------------------------------
(* _EditChannelMixin.edit.  A keyword argument that is not passed keeps    *)
(* its default MISSING: the arguments are a dict of the ones passed.  The  *)
(* call runs to its first await, and on from each await when the           *)
(* collaborator answers.                                                   *)

\* The classes that inherit _EditChannelMixin.
Editable == {"TextChannel", "VoiceChannel", "Group"}

\* An io.BufferedReader, as against a str id.
Streams == {"<stream>"}

NoRequest == [id |-> None, json |-> EmptyDict]

IdleEdit ==
    [pc |-> "idle", self |-> None, args |-> EmptyDict, json |-> EmptyDict,
     uploaded |-> None, upload_id |-> None, sent |-> NoRequest,
     response |-> EmptyDict, ret |-> NoObject, error |-> None]

\* upsert_remove_value(json, field): field joins the list under "remove".
upsert_remove_value(json, field) ==
    DictSet(json, "remove", Append(DictGet(json, "remove", <<>>), field))

\* if name: json["name"] = name        (MISSING and "" are falsy)
edit_name(json, args) ==
    IF "name" \in DOMAIN args /\ args["name"] # ""
    THEN DictSet(json, "name", args["name"]) ELSE json

\* if description is not MISSING: ...
edit_description(json, args) ==
    IF "description" \in DOMAIN args
    THEN IF args["description"] = None
         THEN upsert_remove_value(json, "Description")
         ELSE DictSet(json, "description", args["description"])
    ELSE json

\* if nsfw is not MISSING: json["nsfw"] = nsfw
edit_nsfw(json, args) ==
    IF "nsfw" \in DOMAIN args THEN DictSet(json, "nsfw", args["nsfw"]) ELSE json

\* From the nsfw test on: if json: data = await http.edit_channel(self.id, json=json)
edit_submit(e, c) ==
    LET json == edit_nsfw(e.json, e.args)
    IN  IF json # EmptyDict
        THEN [e EXCEPT !.json = json, !.pc = "requesting",
                       !.sent = [id |-> c[e.self]["id"], json |-> json]]
        ELSE [e EXCEPT !.json = json, !.pc = "returned"]

\* get_attachment_id(http, icon, tag) returns a str id as it is; it hands
\* a byte stream to the upload collaborator and returns the id that gives.
get_attachment_id_uploads(icon) == icon \in Streams

\* if icon is not MISSING: ... json["icon"] = await get_attachment_id(http, icon, "icons")
edit_icon(e, c) ==
    IF "icon" \notin DOMAIN e.args THEN edit_submit(e, c)
    ELSE IF e.args["icon"] = None
         THEN edit_submit([e EXCEPT !.json = upsert_remove_value(e.json, "Icon")], c)
         ELSE IF get_attachment_id_uploads(e.args["icon"])
              THEN [e EXCEPT !.pc = "uploading", !.uploaded = e.args["icon"]]
              ELSE edit_submit([e EXCEPT !.json = DictSet(e.json, "icon", e.args["icon"])], c)

\* A slip: a failed upload is swallowed and the edit goes on without the icon.
edit_upload_failure_swallowed(e, c) == edit_submit([e EXCEPT !.error = "upload"], c)

\* The awaited upload raises: nothing catches it.
edit_upload_failed(e, c) == [e EXCEPT !.pc = "raised", !.error = "upload"]

\* A slip: the variant is taken from the response, not from the receiver.
edit_construct_by_factory(e, c, data) ==
    LET r == New(channel_factory(DictGet(data, "channel_type", None)), data)
    IN  IF r.raised
        THEN [e EXCEPT !.pc = "raised", !.error = "KeyError", !.response = data]
        ELSE [e EXCEPT !.pc = "returned", !.ret = r.obj, !.response = data]

\* return self.__class__(data, self._state)
edit_construct(e, c, data) ==
    LET r == New(c[e.self]["cls"], data)
    IN  IF r.raised
        THEN [e EXCEPT !.pc = "raised", !.error = "KeyError", !.response = data]
        ELSE [e EXCEPT !.pc = "returned", !.ret = r.obj, !.response = data]

\* The keyword arguments a caller passes.
EditArgs ==
    {n @@ d @@ i @@ w :
        n \in {EmptyDict} \cup {[name |-> x] : x \in {"", "Team2"}},
        d \in {EmptyDict} \cup {[description |-> x] : x \in {None, "about"}},
        i \in {EmptyDict} \cup {[icon |-> x] : x \in {None, "f9"} \cup Streams},
        w \in {EmptyDict} \cup {[nsfw |-> x] : x \in BOOLEAN}}

\* The ids the upload collaborator may return.
UploadIds == {"f7"}

\* The payloads the transport may answer an edit with.
EditResponses ==
    {DictSet(FullPayload(id, tag), "name", "Team2") :
        id \in {"g1", "c1"}, tag \in {"Group", "TextChannel", "VoiceChannel"}}

\* A caller calls receiver.edit(**args) on a cached channel; the call runs
\* to its first await.
EditCall(self, args) ==
    /\ edit.pc \in {"idle", "returned", "raised"}
    /\ self \in DOMAIN cache
    /\ cache[self]["cls"] \in Editable
    /\ edit' = edit_icon([IdleEdit EXCEPT
                            !.self = self, !.args = args,
                            !.json = edit_description(edit_name(EmptyDict, args), args)],
                         cache)
    /\ UNCHANGED <<routerVars, categoryVars, entityVars, clientVars>>

\* The upload collaborator returns the id of the uploaded file.
UploadDone(fid) ==
    /\ edit.pc = "uploading"
    /\ edit' = edit_submit([edit EXCEPT !.upload_id = fid,
                                        !.json = DictSet(edit.json, "icon", fid)],
                           cache)
    /\ UNCHANGED <<routerVars, categoryVars, entityVars, clientVars>>

\* The upload collaborator fails.
UploadFail ==
    /\ edit.pc = "uploading"
    /\ edit' = edit_upload_failed(edit, cache)
    /\ UNCHANGED <<routerVars, categoryVars, entityVars, clientVars>>

\* The transport answers the edit request with a payload.
EditResponse(data) ==
    /\ edit.pc = "requesting"
    /\ edit' = edit_construct(edit, cache, data)
    /\ UNCHANGED <<routerVars, categoryVars, entityVars, clientVars>>

\* The transport fails the edit request (HTTPException, HTTPForbidden).
EditFail ==
    /\ edit.pc = "requesting"
    /\ edit' = [edit EXCEPT !.pc = "raised", !.error = "request"]
    /\ UNCHANGED <<routerVars, categoryVars, entityVars, clientVars>>

-----------------------------------------------------------------------------
(* Client._async_init and Client._cleanup (also reached through __aenter__ *)
(* and __aexit__).  Tasks of one event loop call them; a task runs from    *)
(* one await to the next without interruption, and other tasks may run     *)
(* while it awaits the handler.                                            *)

NumTasks == 3
MaxHandlerCalls == 4

Tasks == 1..NumTasks

\* Client.__init__: self.__initialized = False; no call is running.
IdleClient ==
    /\ initialized = FALSE
    /\ clientPc = [t \in Tasks |-> "idle"]
    /\ handlerCalls = <<>>

\* Task t calls _async_init: it returns at once if the flag is set, else it
\* calls the handler's _async_init and awaits it.
AsyncInitCall(t) ==
    /\ clientPc[t] = "idle"
    /\ Len(handlerCalls) < MaxHandlerCalls
    /\ IF initialized
       THEN UNCHANGED <<clientPc, handlerCalls>>
       ELSE /\ handlerCalls' = Append(handlerCalls, "_async_init")
            /\ clientPc' = [clientPc EXCEPT ![t] = "awaits_async_init"]
    /\ UNCHANGED <<initialized, routerVars, categoryVars, entityVars, edit>>

\* The handler's _async_init returns to task t: self.__initialized = True.
AsyncInitReturn(t) ==
    /\ clientPc[t] = "awaits_async_init"
    /\ initialized' = TRUE
    /\ clientPc' = [clientPc EXCEPT ![t] = "idle"]
    /\ UNCHANGED <<handlerCalls, routerVars, categoryVars, entityVars, edit>>

\* Task t calls _cleanup: it returns at once if the flag is not set, else it
\* calls the handler's close and awaits it.
CleanupCall(t) ==
    /\ clientPc[t] = "idle"
    /\ Len(handlerCalls) < MaxHandlerCalls
    /\ IF ~initialized
       THEN UNCHANGED <<clientPc, handlerCalls>>
       ELSE /\ handlerCalls' = Append(handlerCalls, "close")
            /\ clientPc' = [clientPc EXCEPT ![t] = "awaits_close"]
    /\ UNCHANGED <<initialized, routerVars, categoryVars, entityVars, edit>>

\* The handler's close returns to task t: self.__initialized = False.
CleanupReturn(t) ==
    /\ clientPc[t] = "awaits_close"
    /\ initialized' = FALSE
    /\ clientPc' = [clientPc EXCEPT ![t] = "idle"]
    /\ UNCHANGED <<handlerCalls, routerVars, categoryVars, entityVars, edit>>

-----------------------------------------------------------------------------
(* Specifications *)

\* The events of the router specification.
GroupG1 == FullPayload("g1", "Group")
TextC1 == FullPayload("c1", "TextChannel")

Events ==
    { ChannelCreate(GroupG1),
      ChannelCreate(TextC1),
      ChannelCreate(FullPayload("g1", "Thread")),
      ChannelCreate(Restrict(GroupG1, PrivateKeys)),
      ChannelUpdate("g1", [_id |-> "g1", name |-> "Team2"]),
      ChannelUpdate("g1", [_id |-> "g1", remove |-> <<"Description">>]),
      ChannelUpdate("g1", DictSet(DictSet(Restrict(GroupG1, {"_id", "channel_type", "name", "owner"}),
                                          "name", "Team2"), "remove", <<"Description">>)),
      ChannelUpdate("g1", DictSet(GroupG1, "channel_type", "TextChannel")),
      ChannelUpdate("g1", DictSet(GroupG1, "_id", "c1")),
      ChannelUpdate("c1", DictSet(TextC1, "name", "Team2")),
      ChannelDelete("g1"),
      ChannelDelete("c1"),
      Pong }

\* The events of the category specification: the channels a, b, c come and go.
CategoryEvents ==
    {ChannelCreate(FullPayload(id, "TextChannel")) : id \in CategoryIds}
    \cup {ChannelDelete(id) : id \in CategoryIds}

IdleEntity ==
    /\ payload = EmptyDict
    /\ delta = EmptyDict
    /\ obj = NoObject
    /\ once = NoObject
    /\ phase = "idle"
    /\ raised = FALSE

Init ==
    /\ cache = EmptyDict
    /\ inbox = <<>>
    /\ outcome = "none"
    /\ category = InitCategory
    /\ result = <<>>
    /\ IdleEntity
    /\ edit = IdleEdit
    /\ IdleClient

Next ==
    \/ \E e \in Events : Arrive(e)
    \/ Process

Spec == Init /\ [][Next]_vars

NextCategory ==
    \/ \E e \in CategoryEvents : inbox = <<>> /\ Arrive(e)
    \/ Process
    \/ \E data \in CategoryPayloads : CategoryUpdate(data)
    \/ CallChannels

SpecCategory == Init /\ [][NextCategory]_vars

InitEntitySpec ==
    /\ cache = EmptyDict
    /\ inbox = <<>>
    /\ outcome = "none"
    /\ category = InitCategory
    /\ result = <<>>
    /\ InitEntity
    /\ edit = IdleEdit
    /\ IdleClient

NextEntity == Construct \/ Apply \/ ApplyAgain

SpecEntity == InitEntitySpec /\ [][NextEntity]_vars

\* The cache once the Create events of a group and two server channels are routed.
EditCache ==
    OnCreate(OnCreate(OnCreate(EmptyDict, GroupG1).cache, TextC1).cache,
             FullPayload("v1", "VoiceChannel")).cache

InitEdit ==
    /\ cache = EditCache
    /\ inbox = <<>>
    /\ outcome = "created"
    /\ category = InitCategory
    /\ result = <<>>
    /\ IdleEntity
    /\ edit = IdleEdit
    /\ IdleClient

NextEdit ==
    \/ \E self \in DOMAIN cache, args \in EditArgs : EditCall(self, args)
    \/ \E fid \in UploadIds : UploadDone(fid)
    \/ UploadFail
    \/ \E data \in EditResponses : EditResponse(data)
    \/ EditFail

SpecEdit == InitEdit /\ [][NextEdit]_vars

-----------------------------------------------------------------------------
(* Properties *)

\* The payload key an attribute is read from.
KeyOf(attr) ==
    CASE attr = "id"            -> "_id"
      [] attr = "type"          -> "channel_type"
      [] attr = "server_id"     -> "server"
      [] attr = "owner_id"      -> "owner"
      [] attr = "user_id"       -> "user"
      [] attr = "recipient_ids" -> "recipients"
      [] OTHER                  -> attr

\* The value a payload gives an attribute.
ValueOf(attr, data) ==
    IF attr = "icon" THEN File(data["icon"]) ELSE data[KeyOf(attr)]

\* This step routes one event.
Routes == Len(inbox') = Len(inbox) - 1

\* This step routes an Update event whose target is cached.
RoutesUpdateOfCached ==
    /\ Routes
    /\ Head(inbox).type = "ChannelUpdate"
    /\ Head(inbox).id \in DOMAIN cache

\* C1: an Update leaves every field whose key is absent from the delta at its
\* previous value and overwrites the fields whose keys are present.
C1_PartialUpdate ==
    [][RoutesUpdateOfCached =>
        LET e == Head(inbox)
            old == cache[e.id]
            new == cache'[e.id]
        IN  \A a \in DOMAIN old \ {"cls"} :
                IF KeyOf(a) \in DOMAIN e.data
                THEN new[a] = ValueOf(a, e.data)
                ELSE new[a] = old[a]]_vars

\* C2: an Update whose delta names Description in its remove list leaves the
\* description None and the fields the delta does not carry unchanged.
C2_RemoveClears ==
    [][(/\ RoutesUpdateOfCached
        /\ "remove" \in DOMAIN Head(inbox).data
        /\ \E i \in DOMAIN Head(inbox).data["remove"] :
               Head(inbox).data["remove"][i] = "Description"
        /\ "description" \in DOMAIN cache[Head(inbox).id]) =>
        LET e == Head(inbox)
            old == cache[e.id]
            new == cache'[e.id]
        IN  /\ new["description"] = None
            /\ \A a \in DOMAIN old \ {"cls", "description"} :
                   KeyOf(a) \notin DOMAIN e.data => new[a] = old[a]]_vars

\* C3: routing an Update or Delete whose target is not cached leaves the
\* Cache Store as it was and raises nothing.
C3_AbsentTargetNoOp ==
    [][(/\ Routes
        /\ Head(inbox).type \in {"ChannelUpdate", "ChannelDelete"}
        /\ Head(inbox).id \notin DOMAIN cache) =>
        (cache' = cache /\ outcome' = "dropped")]_vars

C3_Witness ==
    /\ outcome = "dropped"
    /\ "c1" \in DOMAIN cache
    /\ "g1" \notin DOMAIN cache
    /\ inbox = <<>>

\* The indices of the category's channel ids that are cached.
CachedAt(cat, c) == {i \in 1..Len(cat["channel_ids"]) : cat["channel_ids"][i] \in DOMAIN c}

\* ret lists the cached channels of the category, in channel_ids order.
ResolvesTo(ret, cat, c) ==
    /\ Len(ret) = Cardinality(CachedAt(cat, c))
    /\ \A i \in CachedAt(cat, c) :
           ret[Cardinality({j \in CachedAt(cat, c) : j <= i})] = c[cat["channel_ids"][i]]

\* C4: every call of Category.channels() returns the cached channels among
\* the category's current channel_ids, in order, as the cache is at the call.
C4_ChannelsResolve ==
    [][CallChannels => ResolvesTo(result', category, cache)]_vars

C4_Witness ==
    /\ category["channel_ids"] = <<"a", "b", "c">>
    /\ DOMAIN cache = {"a", "c"}
    /\ result = <<cache["a"], cache["c"]>>

\* C5: each known tag constructs its own variant, every other tag a
\* PrivateChannel; a payload with an unknown tag, an id and nothing else
\* constructs an entity with that id and type.
C5_FactoryTotal ==
    /\ phase = "built" =>
        /\ payload["channel_type"] = "TextChannel" => obj["cls"] = "TextChannel"
        /\ payload["channel_type"] = "VoiceChannel" => obj["cls"] = "VoiceChannel"
        /\ payload["channel_type"] = "SavedMessages" => obj["cls"] = "SavedMessages"
        /\ payload["channel_type"] = "DirectMessage" => obj["cls"] = "DirectMessage"
        /\ payload["channel_type"] = "Group" => obj["cls"] = "Group"
        /\ payload["channel_type"] \notin KnownTags => obj["cls"] = "PrivateChannel"
        /\ obj["id"] = payload["_id"]
        /\ obj["type"] = payload["channel_type"]
    /\ (/\ phase \notin {"idle", "new"}
        /\ PrivateKeys \subseteq DOMAIN payload
        /\ payload["channel_type"] \notin KnownTags) => phase # "failed"

C5_Witness ==
    /\ phase = "built"
    /\ DOMAIN payload = PrivateKeys
    /\ payload["channel_type"] = "Thread"
    /\ obj = [cls |-> "PrivateChannel", id |-> "g1", type |-> "Thread"]

\* C6: an Update changes neither the id nor the type of the entity it
\* updates, and the entity cached under key k has id k.
C6_IdAndTypeFixed ==
    /\ [](\A k \in DOMAIN cache : cache[k]["id"] = k)
    /\ [][RoutesUpdateOfCached =>
            /\ cache'[Head(inbox).id]["id"] = cache[Head(inbox).id]["id"]
            /\ cache'[Head(inbox).id]["type"] = cache[Head(inbox).id]["type"]]_vars

\* This payload has every key its variant requires.
Constructs(data) ==
    /\ "channel_type" \in DOMAIN data
    /\ ~New(channel_factory(data["channel_type"]), data).raised

\* C7: the router takes the oldest event and only that one; once a Create
\* is routed the channel is in the cache; an Update whose target is cached
\* is applied, not dropped.
C7_InOrderCommitted ==
    [][Routes =>
        /\ inbox' = Tail(inbox)
        /\ (Head(inbox).type = "ChannelCreate" /\ Constructs(Head(inbox).data)) =>
              LET d == Head(inbox).data
                  o == get_channel(cache', d["_id"])
              IN  /\ outcome' = "created"
                  /\ o # NoObject
                  /\ o["cls"] = channel_factory(d["channel_type"])
                  /\ \A a \in DOMAIN o \ {"cls", "icon"} :
                         KeyOf(a) \in DOMAIN d => o[a] = d[KeyOf(a)]
        /\ RoutesUpdateOfCached =>
              /\ outcome' \in {"updated", "error"}
              /\ outcome' = "updated" =>
                    \A a \in DOMAIN cache'[Head(inbox).id] \ {"cls", "icon"} :
                        KeyOf(a) \in DOMAIN Head(inbox).data =>
                            cache'[Head(inbox).id][a] = Head(inbox).data[KeyOf(a)]]_vars

\* The Create of group g1 is routed and an Update of g1 is the next event.
C7_Witness ==
    /\ outcome = "created"
    /\ "g1" \in DOMAIN cache
    /\ cache["g1"]["cls"] = "Group"
    /\ cache["g1"]["name"] = "Team"
    /\ inbox # <<>>
    /\ Head(inbox).type = "ChannelUpdate"
    /\ Head(inbox).id = "g1"

\* C8: applying a delta a second time changes nothing.
C8_Idempotent == phase = "twice" => obj = once

C8_Witness ==
    /\ phase = "twice"
    /\ ~raised
    /\ obj["cls"] = "Group"
    /\ "remove" \in DOMAIN delta
    /\ obj["name"] = "Team2"
    /\ obj["recipient_ids"] = <<"u3">>

\* The arguments give no field, or only an empty name.
EmptyBody(args) == DOMAIN args \subseteq {"name"} /\ ("name" \in DOMAIN args => args["name"] = "")

\* C9: an edit with a field given that succeeds returns an entity of the
\* receiver's class built from the response, and no step of edit() changes
\* the cache (the receiver is cached); an edit with an empty body sends
\* nothing and returns None.
C9_EditReturnsNew ==
    /\ []((edit.pc = "returned" /\ ~EmptyBody(edit.args)) =>
            /\ edit.sent # NoRequest
            /\ edit.ret # NoObject
            /\ edit.ret["cls"] = cache[edit.self]["cls"]
            /\ edit.ret["id"] = edit.response["_id"]
            /\ edit.ret["type"] = edit.response["channel_type"]
            /\ edit.ret["name"] = edit.response["name"])
    /\ []((edit.pc # "idle" /\ EmptyBody(edit.args)) =>
            /\ edit.pc = "returned"
            /\ edit.sent = NoRequest
            /\ edit.uploaded = None
            /\ edit.ret = NoObject)
    /\ [][edit' # edit => cache' = cache]_vars

\* An edit of the cached text channel returned an entity with the new name,
\* and the receiver keeps its old one.
C9_Witness ==
    /\ edit.pc = "returned"
    /\ edit.self = "c1"
    /\ edit.ret["cls"] = "TextChannel"
    /\ edit.ret["name"] = "Team2"
    /\ cache["c1"]["name"] = "Team"

\* C10: with a byte stream as icon, an edit request is sent only after the
\* upload returned an id, and it carries that id; if the upload fails the
\* call raises and no request is sent.
C10_UploadBeforeEdit ==
    /\ ("icon" \in DOMAIN edit.args /\ edit.args["icon"] \in Streams /\ edit.sent # NoRequest) =>
            /\ edit.uploaded = edit.args["icon"]
            /\ edit.upload_id \in UploadIds
            /\ edit.sent.json["icon"] = edit.upload_id
    /\ edit.pc = "uploading" => (edit.uploaded \in Streams /\ edit.sent = NoRequest)
    /\ edit.error = "upload" => (edit.pc = "raised" /\ edit.sent = NoRequest)

\* The upload returned f7 and the edit request carrying it is in flight.
C10_Witness ==
    /\ edit.pc = "requesting"
    /\ edit.uploaded \in Streams
    /\ edit.sent.json["icon"] = "f7"

-----------------------------------------------------------------------------
(* The client specification and its property *)

InitClient ==
    /\ cache = EmptyDict
    /\ inbox = <<>>
    /\ outcome = "none"
    /\ category = InitCategory
    /\ result = <<>>
    /\ IdleEntity
    /\ edit = IdleEdit
    /\ IdleClient

NextClient ==
    \/ \E t \in Tasks : AsyncInitCall(t)
    \/ \E t \in Tasks : AsyncInitReturn(t)
    \/ \E t \in Tasks : CleanupCall(t)
    \/ \E t \in Tasks : CleanupReturn(t)

SpecClient == InitClient /\ [][NextClient]_vars

\* C11: the calls on the HTTP handler alternate, _async_init first: no
\* second _async_init without a close between, no close unless initialized.
C11_HandlerCallsAlternate ==
    \A i \in 1..Len(handlerCalls) :
        handlerCalls[i] = IF i % 2 = 1 THEN "_async_init" ELSE "close"

====
